---- MODULE Spec2Model ----
(***************************************************************************)
(* Model of tools/webassembly.py: a minimal reader of wasm section         *)
(* headers, the import enumerator, the "dylink" section parser and         *)
(* rewriter, and the writer of the "emscripten_metadata" section.          *)
(* A file is a sequence of bytes (0..255); a reader is a pair (buf, pos).  *)
(* A Python exception is modelled by a result record with ok = FALSE.      *)
(***************************************************************************)
EXTENDS Integers, Sequences, FiniteSets, TLC

VARIABLES file, pre, op, arg, ret, start, mdBase, mdCount, upBase, upExtras, upCount, writes

vars == <<file, pre, op, arg, ret, start, mdBase, mdCount, upBase, upExtras, upCount, writes>>

(***************************************************************************)
(* Bounds of the model.                                                    *)
(***************************************************************************)
MaxSections == 2
MaxRewrites == 2

(***************************************************************************)
(* Program constants.                                                      *)
(***************************************************************************)
EMSCRIPTEN_METADATA_MAJOR == 0
EMSCRIPTEN_METADATA_MINOR == 3
EMSCRIPTEN_ABI_MAJOR == 0
EMSCRIPTEN_ABI_MINOR == 29
WASM_PAGE_SIZE == 65536

SecType_CUSTOM == 0
SecType_IMPORT == 2

ExternType_FUNC == 0
ExternType_TABLE == 1
ExternType_MEMORY == 2
ExternType_GLOBAL == 3
ExternType_EVENT == 4

ExternType == {ExternType_FUNC, ExternType_TABLE, ExternType_MEMORY,
               ExternType_GLOBAL, ExternType_EVENT}

Min(a, b) == IF a < b THEN a ELSE b

(***************************************************************************)
(* Byte strings.                                                           *)
(***************************************************************************)
\* b'\0asm'
MAGIC == <<0, 97, 115, 109>>
\* b'\x01\0\0\0'
VERSION == <<1, 0, 0, 0>>
\* 'dylink' as a str (code points)
DYLINK_STR == <<100, 121, 108, 105, 110, 107>>
\* b'\06dylink'
DYLINK_NAME == <<6, 100, 121, 108, 105, 110, 107>>
\* b'\x13emscripten_metadata'
METADATA_NAME == <<19, 101, 109, 115, 99, 114, 105, 112, 116, 101, 110, 95,
                   109, 101, 116, 97, 100, 97, 116, 97>>

\* orig[a:] of a Python bytes object
SliceFrom(s, a) == IF a >= Len(s) THEN <<>> ELSE SubSeq(s, a + 1, Len(s))
\* orig[0:b] of a Python bytes object
SliceTo(s, b) == SubSeq(s, 1, Min(b, Len(s)))

(***************************************************************************)
(* third_party/leb128: unsigned and signed LEB128.                         *)
(***************************************************************************)
RECURSIVE leb128_u_encode(_)
leb128_u_encode(i) ==
  LET byte == i % 128
      rest == i \div 128
  IN IF rest = 0 THEN <<byte>> ELSE <<128 + byte>> \o leb128_u_encode(rest)

\* reads bytes up to and including the first one with the top bit clear;
\* ord(r.read(1)) raises at end of file
RECURSIVE leb128_read_bytes(_, _, _)
leb128_read_bytes(buf, pos, acc) ==
  IF pos >= Len(buf) THEN [ok |-> FALSE, bytes |-> acc, pos |-> pos]
  ELSE LET b == buf[pos + 1]
       IN IF b < 128 THEN [ok |-> TRUE, bytes |-> Append(acc, b), pos |-> pos + 1]
          ELSE leb128_read_bytes(buf, pos + 1, Append(acc, b))

RECURSIVE Pow128(_)
Pow128(n) == IF n = 0 THEN 1 ELSE 128 * Pow128(n - 1)

RECURSIVE leb128_u_decode(_)
leb128_u_decode(bytes) ==
  IF bytes = <<>> THEN 0
  ELSE (Head(bytes) % 128) + 128 * leb128_u_decode(Tail(bytes))

leb128_i_decode(bytes) ==
  LET r == leb128_u_decode(bytes)
      e == bytes[Len(bytes)]
  IN IF (e \div 64) % 2 = 1 THEN r - Pow128(Len(bytes)) ELSE r

toLEB(num) == leb128_u_encode(num)

readULEB(buf, pos) ==
  LET r == leb128_read_bytes(buf, pos, <<>>)
  IN IF r.ok THEN [ok |-> TRUE, val |-> leb128_u_decode(r.bytes), pos |-> r.pos]
     ELSE [ok |-> FALSE, val |-> 0, pos |-> r.pos]

readSLEB(buf, pos) ==
  LET r == leb128_read_bytes(buf, pos, <<>>)
  IN IF r.ok THEN [ok |-> TRUE, val |-> leb128_i_decode(r.bytes), pos |-> r.pos]
     ELSE [ok |-> FALSE, val |-> 0, pos |-> r.pos]

(***************************************************************************)
(* bytes.decode('utf-8') and str.encode('utf-8'), strict.  A str is a      *)
(* sequence of code points.                                                *)
(***************************************************************************)
IsCont(b) == b >= 128 /\ b <= 191

\* number of bytes of the sequence a lead byte announces, 0 if it is no lead
Utf8Len(b) ==
  IF b < 128 THEN 1
  ELSE IF b >= 194 /\ b <= 223 THEN 2
  ELSE IF b >= 224 /\ b <= 239 THEN 3
  ELSE IF b >= 240 /\ b <= 244 THEN 4
  ELSE 0

\* the second byte excludes overlong forms, surrogates and values > 0x10FFFF
Utf8SecondOk(b, c) ==
  /\ IsCont(c)
  /\ (b = 224 => c >= 160)
  /\ (b = 237 => c <= 159)
  /\ (b = 240 => c >= 144)
  /\ (b = 244 => c <= 143)

RECURSIVE decode_utf8(_)
decode_utf8(bytes) ==
  IF bytes = <<>> THEN [ok |-> TRUE, val |-> <<>>]
  ELSE LET b == bytes[1]
           n == Utf8Len(b)
       IN IF n = 0 \/ n > Len(bytes) THEN [ok |-> FALSE, val |-> <<>>]
          ELSE IF n > 1 /\ ~Utf8SecondOk(b, bytes[2]) THEN [ok |-> FALSE, val |-> <<>>]
          ELSE IF \E k \in 3..n : ~IsCont(bytes[k]) THEN [ok |-> FALSE, val |-> <<>>]
          ELSE LET cp == IF n = 1 THEN b
                         ELSE IF n = 2 THEN (b - 192) * 64 + (bytes[2] - 128)
                         ELSE IF n = 3 THEN (b - 224) * 4096 + (bytes[2] - 128) * 64
                                            + (bytes[3] - 128)
                         ELSE (b - 240) * 262144 + (bytes[2] - 128) * 4096
                              + (bytes[3] - 128) * 64 + (bytes[4] - 128)
                   rest == decode_utf8(SubSeq(bytes, n + 1, Len(bytes)))
               IN IF rest.ok THEN [ok |-> TRUE, val |-> <<cp>> \o rest.val]
                  ELSE rest

RECURSIVE encode_utf8(_)
encode_utf8(str) ==
  IF str = <<>> THEN [ok |-> TRUE, val |-> <<>>]
  ELSE LET cp == str[1]
           rest == encode_utf8(Tail(str))
           enc == IF cp < 128 THEN <<cp>>
                  ELSE IF cp < 2048 THEN <<192 + (cp \div 64), 128 + (cp % 64)>>
                  ELSE IF cp < 65536
                       THEN <<224 + (cp \div 4096), 128 + ((cp \div 64) % 64),
                              128 + (cp % 64)>>
                  ELSE <<240 + (cp \div 262144), 128 + ((cp \div 4096) % 64),
                         128 + ((cp \div 64) % 64), 128 + (cp % 64)>>
       IN IF cp >= 55296 /\ cp <= 57343 THEN [ok |-> FALSE, val |-> <<>>]
          ELSE IF rest.ok THEN [ok |-> TRUE, val |-> enc \o rest.val]
          ELSE rest

(***************************************************************************)
(* class Module: the reading primitives.                                   *)
(***************************************************************************)
\* self.buf.read(n): a short read at end of file is not an error
read(buf, pos, n) ==
  IF pos >= Len(buf) THEN [data |-> <<>>, pos |-> pos]
  ELSE [data |-> SubSeq(buf, pos + 1, Min(pos + n, Len(buf))),
        pos |-> Min(pos + n, Len(buf))]

\* self.buf.read(1)[0]: IndexError at end of file
readByte(buf, pos) ==
  IF pos >= Len(buf) THEN [ok |-> FALSE, val |-> 0, pos |-> pos]
  ELSE [ok |-> TRUE, val |-> buf[pos + 1], pos |-> pos + 1]

readString(buf, pos) ==
  LET size == readULEB(buf, pos)
  IN IF ~size.ok THEN [ok |-> FALSE, val |-> <<>>, pos |-> size.pos]
     ELSE LET data == read(buf, size.pos, size.val)
              str == decode_utf8(data.data)
          IN [ok |-> str.ok, val |-> str.val, pos |-> data.pos]

readLimits(buf, pos) ==
  LET flags == readByte(buf, pos)
  IN IF ~flags.ok THEN [ok |-> FALSE, pos |-> flags.pos]
     ELSE LET initial == readULEB(buf, flags.pos)
          IN IF ~initial.ok THEN [ok |-> FALSE, pos |-> initial.pos]
             ELSE IF flags.val % 2 = 1
                  THEN LET maximum == readULEB(buf, initial.pos)
                       IN [ok |-> maximum.ok, pos |-> maximum.pos]
                  ELSE [ok |-> TRUE, pos |-> initial.pos]

Section(type, size, offset) == [type |-> type, size |-> size, offset |-> offset]

NoModule == [ok |-> FALSE, sections |-> <<>>, section_map |-> <<>>]

\* variant: the loop runs while the position is before the end of the file
RECURSIVE readSectionHeaders_until_past_end(_, _, _, _)
readSectionHeaders_until_past_end(buf, pos, sections, section_map) ==
  IF pos >= Len(buf)
  THEN [ok |-> TRUE, sections |-> sections, section_map |-> section_map]
  ELSE LET section_type == readByte(buf, pos)
       IN IF ~section_type.ok THEN NoModule
          ELSE LET section_size == readULEB(buf, section_type.pos)
               IN IF ~section_size.ok THEN NoModule
                  ELSE LET offset == section_size.pos
                           section_info == Section(section_type.val, section_size.val, offset)
                       IN IF section_type.val # SecType_CUSTOM
                          THEN IF section_type.val \in DOMAIN section_map
                               THEN NoModule
                               ELSE readSectionHeaders_until_past_end(buf,
                                      offset + section_size.val,
                                      Append(sections, section_info),
                                      (section_type.val :> section_info) @@ section_map)
                          ELSE readSectionHeaders_until_past_end(buf,
                                 offset + section_size.val,
                                 Append(sections, section_info), section_map)

\* variant: a repeated non-custom type replaces the entry of the map
RECURSIVE readSectionHeaders_no_assert(_, _, _, _)
readSectionHeaders_no_assert(buf, pos, sections, section_map) ==
  IF pos = Len(buf)
  THEN [ok |-> TRUE, sections |-> sections, section_map |-> section_map]
  ELSE LET section_type == readByte(buf, pos)
       IN IF ~section_type.ok THEN NoModule
          ELSE LET section_size == readULEB(buf, section_type.pos)
               IN IF ~section_size.ok THEN NoModule
                  ELSE LET offset == section_size.pos
                           section_info == Section(section_type.val, section_size.val, offset)
                       IN IF section_type.val # SecType_CUSTOM
                          THEN readSectionHeaders_no_assert(buf, offset + section_size.val,
                                 Append(sections, section_info),
                                 (section_type.val :> section_info) @@ section_map)
                          ELSE readSectionHeaders_no_assert(buf, offset + section_size.val,
                                 Append(sections, section_info), section_map)

\* the while loop of readSectionHeaders, entered with the read position pos
RECURSIVE readSectionHeaders(_, _, _, _)
readSectionHeaders(buf, pos, sections, section_map) ==
  IF pos = Len(buf)
  THEN [ok |-> TRUE, sections |-> sections, section_map |-> section_map]
  ELSE LET section_type == readByte(buf, pos)
       IN IF ~section_type.ok THEN NoModule
          ELSE LET section_size == readULEB(buf, section_type.pos)
               IN IF ~section_size.ok THEN NoModule
                  ELSE LET offset == section_size.pos
                           section_info == Section(section_type.val, section_size.val, offset)
                       IN IF section_type.val # SecType_CUSTOM
                          THEN IF section_type.val \in DOMAIN section_map
                               THEN NoModule
                               ELSE readSectionHeaders(buf, offset + section_size.val,
                                      Append(sections, section_info),
                                      (section_type.val :> section_info) @@ section_map)
                          ELSE readSectionHeaders(buf, offset + section_size.val,
                                 Append(sections, section_info), section_map)

\* Module.__init__
Module(buf) ==
  LET magic == read(buf, 0, 4)
      version == read(buf, magic.pos, 4)
  IN IF magic.data # MAGIC THEN NoModule
     ELSE IF version.data # VERSION THEN NoModule
     ELSE readSectionHeaders(buf, version.pos, <<>>, <<>>)

(***************************************************************************)
(* parse_dylink_section                                                    *)
(***************************************************************************)
NoDylink == [ok |-> FALSE, mem_size |-> 0, mem_align |-> 0, table_size |-> 0,
             table_align |-> 0, section_end |-> 0, needed |-> <<>>]

\* the loop "while needed_count: needed.append(module.readString())"
RECURSIVE readNeeded(_, _, _, _)
readNeeded(buf, pos, needed_count, needed) ==
  IF needed_count = 0 THEN [ok |-> TRUE, val |-> needed, pos |-> pos]
  ELSE LET libname == readString(buf, pos)
       IN IF ~libname.ok THEN [ok |-> FALSE, val |-> needed, pos |-> libname.pos]
          ELSE readNeeded(buf, libname.pos, needed_count - 1, Append(needed, libname.val))

\* the body of the dylink section, read from the section's payload offset
readDylinkFields(buf, dylink_section) ==
  LET section_name == readString(buf, dylink_section.offset)
  IN IF ~section_name.ok \/ section_name.val # DYLINK_STR THEN NoDylink
     ELSE LET mem_size == readULEB(buf, section_name.pos)
          IN IF ~mem_size.ok THEN NoDylink
     ELSE LET mem_align == readULEB(buf, mem_size.pos)
          IN IF ~mem_align.ok THEN NoDylink
     ELSE LET table_size == readULEB(buf, mem_align.pos)
          IN IF ~table_size.ok THEN NoDylink
     ELSE LET table_align == readULEB(buf, table_size.pos)
          IN IF ~table_align.ok THEN NoDylink
     ELSE LET needed_count == readULEB(buf, table_align.pos)
          IN IF ~needed_count.ok THEN NoDylink
     ELSE LET needed == readNeeded(buf, needed_count.pos, needed_count.val, <<>>)
          IN IF ~needed.ok THEN NoDylink
             ELSE [ok |-> TRUE, mem_size |-> mem_size.val, mem_align |-> mem_align.val,
                   table_size |-> table_size.val, table_align |-> table_align.val,
                   section_end |-> dylink_section.offset + dylink_section.size,
                   needed |-> needed.val]

parse_dylink_section(buf) ==
  LET module == Module(buf)
  IN IF ~module.ok THEN NoDylink
     ELSE IF module.sections = <<>> THEN NoDylink
     ELSE IF module.sections[1].type # SecType_CUSTOM THEN NoDylink
     ELSE readDylinkFields(buf, module.sections[1])

(***************************************************************************)
(* get_imports                                                             *)
(***************************************************************************)
Import(type, mod, field) == [type |-> type, mod |-> mod, field |-> field]

NoImports == [ok |-> FALSE, imports |-> <<>>]

\* the kind-specific part of an import entry, read after the kind byte
readImportDesc(buf, pos, kind) ==
  IF kind = ExternType_FUNC
  THEN LET sig == readULEB(buf, pos) IN [ok |-> sig.ok, pos |-> sig.pos]
  ELSE IF kind = ExternType_GLOBAL
  THEN LET global_type == readSLEB(buf, pos)
       IN IF ~global_type.ok THEN [ok |-> FALSE, pos |-> global_type.pos]
          ELSE LET mutable == readByte(buf, global_type.pos)
               IN [ok |-> mutable.ok, pos |-> mutable.pos]
  ELSE IF kind = ExternType_MEMORY
  THEN readLimits(buf, pos)
  ELSE IF kind = ExternType_TABLE
  THEN LET table_type == readSLEB(buf, pos)
       IN IF ~table_type.ok THEN [ok |-> FALSE, pos |-> table_type.pos]
          ELSE readLimits(buf, table_type.pos)
  ELSE [ok |-> FALSE, pos |-> pos]

\* the loop "for i in range(num_imports)"
RECURSIVE readImports(_, _, _, _)
readImports(buf, pos, num_imports, imports) ==
  IF num_imports = 0 THEN [ok |-> TRUE, imports |-> imports]
  ELSE LET mod == readString(buf, pos)
       IN IF ~mod.ok THEN NoImports
     ELSE LET field == readString(buf, mod.pos)
          IN IF ~field.ok THEN NoImports
     ELSE LET kind == readByte(buf, field.pos)
          IN IF ~kind.ok \/ kind.val \notin ExternType THEN NoImports
     ELSE LET desc == readImportDesc(buf, kind.pos, kind.val)
          IN IF ~desc.ok THEN NoImports
             ELSE readImports(buf, desc.pos, num_imports - 1,
                              Append(imports, Import(kind.val, mod.val, field.val)))

get_imports(buf) ==
  LET module == Module(buf)
  IN IF ~module.ok THEN NoImports
     ELSE IF SecType_IMPORT \notin DOMAIN module.section_map
     THEN [ok |-> TRUE, imports |-> <<>>]
     ELSE LET num_imports == readULEB(buf, module.section_map[SecType_IMPORT].offset)
          IN IF ~num_imports.ok THEN NoImports
             ELSE readImports(buf, num_imports.pos, num_imports.val, <<>>)

(***************************************************************************)
(* The two writers.                                                        *)
(***************************************************************************)
\* f.write(b'\0'); f.write(toLEB(size)); f.write(name); f.write(contents)
custom_section(name, contents) ==
  <<0>> \o toLEB(Len(name) + Len(contents)) \o name \o contents

\* the loop "for dyn_needed in needed"
RECURSIVE encodeNeeded(_)
encodeNeeded(needed) ==
  IF needed = <<>> THEN [ok |-> TRUE, val |-> <<>>]
  ELSE LET dyn_needed == encode_utf8(Head(needed))
       IN IF ~dyn_needed.ok THEN [ok |-> FALSE, val |-> <<>>]
          ELSE LET rest == encodeNeeded(Tail(needed))
               IN IF ~rest.ok THEN rest
                  ELSE [ok |-> TRUE,
                        val |-> toLEB(Len(dyn_needed.val)) \o dyn_needed.val \o rest.val]

\* variant: table_align is written back as parsed
dylink_contents_keeps_align(mem_size, mem_align, table_size, table_align, needed) ==
  LET entries == encodeNeeded(needed)
  IN [ok |-> entries.ok,
      val |-> toLEB(mem_size) \o toLEB(mem_align) \o toLEB(table_size) \o toLEB(table_align)
              \o toLEB(Len(needed)) \o entries.val]

\* the new payload of the dylink section
dylink_contents(mem_size, mem_align, table_size, table_align, needed) ==
  LET entries == encodeNeeded(needed)
  IN [ok |-> entries.ok,
      val |-> toLEB(mem_size) \o toLEB(mem_align) \o toLEB(table_size) \o toLEB(0)
              \o toLEB(Len(needed)) \o entries.val]

\* variant: the rest of the binary is copied from the end of the header
dylink_assemble_keeps_old(orig, section_end, contents) ==
  SliceTo(orig, 8) \o custom_section(DYLINK_NAME, contents) \o SliceFrom(orig, 8)

\* variant: the rest of the binary is copied from one byte too far
dylink_assemble_skips_byte(orig, section_end, contents) ==
  SliceTo(orig, 8) \o custom_section(DYLINK_NAME, contents)
  \o SliceFrom(orig, section_end + 1)

\* header, new section, rest of the binary
dylink_assemble(orig, section_end, contents) ==
  SliceTo(orig, 8) \o custom_section(DYLINK_NAME, contents) \o SliceFrom(orig, section_end)

\* the writes of the with block, reached when contents was built
write_dylink_section(orig, section_end, contents) ==
  IF ~contents.ok THEN [ok |-> FALSE, file |-> orig]
  ELSE [ok |-> TRUE, file |-> dylink_assemble(orig, section_end, contents.val)]

\* variant: the file is opened for writing before the section is parsed
rewrite_dylink_section_early_open(buf, parsed, extra_dynlibs) ==
  IF ~parsed.ok THEN [ok |-> FALSE, file |-> <<>>]
  ELSE write_dylink_section(buf, parsed.section_end,
         dylink_contents(parsed.mem_size, parsed.mem_align, parsed.table_size,
                         parsed.table_align, parsed.needed \o extra_dynlibs))

\* variant: the new list replaces the parsed one
rewrite_dylink_section_forgets_needed(buf, parsed, extra_dynlibs) ==
  IF ~parsed.ok THEN [ok |-> FALSE, file |-> buf]
  ELSE write_dylink_section(buf, parsed.section_end,
         dylink_contents(parsed.mem_size, parsed.mem_align, parsed.table_size,
                         parsed.table_align, extra_dynlibs))

\* update_dylink_section after its first statement; parsed is the result of
\* parse_dylink_section.  ok = FALSE: an exception was raised, and the file was
\* not opened for writing
rewrite_dylink_section(buf, parsed, extra_dynlibs) ==
  IF ~parsed.ok THEN [ok |-> FALSE, file |-> buf]
  ELSE write_dylink_section(buf, parsed.section_end,
         dylink_contents(parsed.mem_size, parsed.mem_align, parsed.table_size,
                         parsed.table_align, parsed.needed \o extra_dynlibs))

update_dylink_section(buf, extra_dynlibs) ==
  rewrite_dylink_section(buf, parse_dylink_section(buf), extra_dynlibs)

\* variant: global_base is written before mem_size
metadata_contents_swapped(mem_size, global_base, standalone_wasm) ==
  toLEB(EMSCRIPTEN_METADATA_MAJOR) \o toLEB(EMSCRIPTEN_METADATA_MINOR)
  \o toLEB(EMSCRIPTEN_ABI_MAJOR) \o toLEB(EMSCRIPTEN_ABI_MINOR)
  \o toLEB(1)
  \o toLEB(global_base) \o toLEB(0) \o toLEB(mem_size) \o toLEB(0)
  \o toLEB(0)
  \o toLEB(0)
  \o toLEB(standalone_wasm)

metadata_contents(mem_size, global_base, standalone_wasm) ==
  toLEB(EMSCRIPTEN_METADATA_MAJOR) \o toLEB(EMSCRIPTEN_METADATA_MINOR)
  \o toLEB(EMSCRIPTEN_ABI_MAJOR) \o toLEB(EMSCRIPTEN_ABI_MINOR)
  \o toLEB(1)
  \o toLEB(mem_size) \o toLEB(0) \o toLEB(global_base) \o toLEB(0)
  \o toLEB(0)
  \o toLEB(0)
  \o toLEB(standalone_wasm)

\* variant: the section is written after the existing sections
add_emscripten_metadata_at_end(orig, INITIAL_MEMORY, GLOBAL_BASE, STANDALONE_WASM) ==
  LET mem_size == INITIAL_MEMORY \div WASM_PAGE_SIZE
  IN SliceTo(orig, 8)
     \o SliceFrom(orig, 8)
     \o custom_section(METADATA_NAME, metadata_contents(mem_size, GLOBAL_BASE, STANDALONE_WASM))

add_emscripten_metadata(orig, INITIAL_MEMORY, GLOBAL_BASE, STANDALONE_WASM) ==
  LET mem_size == INITIAL_MEMORY \div WASM_PAGE_SIZE
  IN SliceTo(orig, 8)
     \o custom_section(METADATA_NAME, metadata_contents(mem_size, GLOBAL_BASE, STANDALONE_WASM))
     \o SliceFrom(orig, 8)

(***************************************************************************)
(* Input files.  A file is a header followed by up to MaxSections pieces;  *)
(* the pieces are sections, well formed or not.                            *)
(***************************************************************************)
HEADER == MAGIC \o VERSION

\* 'dylink', mem_size 16, mem_align 4, table_size 8, table_align 4, needed ['a']
DylinkA == <<0, 14, 6, 100, 121, 108, 105, 110, 107, 16, 4, 8, 4, 1, 1, 97>>

\* padded varints (section size, name length, table_size), mem_size 300,
\* mem_align 0, table_size 8, table_align 3, needed ['a', U+00E9, 'a']
DylinkB == <<0, 150, 0, 134, 0, 100, 121, 108, 105, 110, 107, 172, 2, 0, 136, 0, 3,
             3, 1, 97, 2, 195, 169, 1, 97>>

\* a dylink section that ends after table_align, without the needed list
DylinkLegacy == <<0, 11, 6, 100, 121, 108, 105, 110, 107, 1, 2, 3, 4>>

TypeSec == <<1, 1, 0>>

CustomOther == <<0, 3, 2, 104, 105>>

\* declares 5 bytes of payload
Overshoot == <<10, 5, 0>>

\* the size varint has no last byte
TruncLEB == <<11, 128>>

\* an import entry: names as bytes and as str, the kind byte, the bytes after it
Entry(modBytes, mod, fieldBytes, field, kind, desc) ==
  [modBytes |-> modBytes, mod |-> mod, fieldBytes |-> fieldBytes, field |-> field,
   kind |-> kind, desc |-> desc]

ENV == <<101, 110, 118>>

ImportsAllEntries ==
  << Entry(ENV, ENV, <<102>>, <<102>>, 0, <<128, 1>>),
     Entry(ENV, ENV, <<103>>, <<103>>, 3, <<127, 1>>),
     Entry(ENV, ENV, <<109>>, <<109>>, 2, <<1, 1, 130, 0>>),
     Entry(ENV, ENV, <<195, 169>>, <<233>>, 1, <<112, 0, 4>>),
     Entry(<<>>, <<>>, <<102>>, <<102>>, 2, <<0, 1>>) >>

ImportsEventEntries ==
  << Entry(ENV, ENV, <<102>>, <<102>>, 0, <<0>>),
     Entry(ENV, ENV, <<101>>, <<101>>, 4, <<0, 0>>) >>

ImportsBadEntries ==
  << Entry(ENV, ENV, <<102>>, <<102>>, 99, <<0>>) >>

ImportLists == {ImportsAllEntries, ImportsEventEntries, ImportsBadEntries}

RECURSIVE EncodeEntries(_)
EncodeEntries(entries) ==
  IF entries = <<>> THEN <<>>
  ELSE LET e == Head(entries)
       IN <<Len(e.modBytes)>> \o e.modBytes \o <<Len(e.fieldBytes)>> \o e.fieldBytes
          \o <<e.kind>> \o e.desc \o EncodeEntries(Tail(entries))

\* the payload of an import section: the count, then the entries
ImportPayload(entries) == <<Len(entries)>> \o EncodeEntries(entries)

ImportSec(entries) ==
  <<2, Len(ImportPayload(entries))>> \o ImportPayload(entries)

Pieces == {DylinkA, DylinkB, DylinkLegacy, TypeSec, CustomOther, Overshoot, TruncLEB}
          \cup {ImportSec(l) : l \in ImportLists}

RECURSIVE Concat(_)
Concat(ss) == IF ss = <<>> THEN <<>> ELSE Head(ss) \o Concat(Tail(ss))

Bodies == {Concat(ss) : ss \in UNION {[1..n -> Pieces] : n \in 0..MaxSections}}

\* bad magic, bad version, fewer than 8 bytes
BadHeaderFiles == { <<0, 97, 115, 110>> \o VERSION \o DylinkA,
                    MAGIC \o <<2, 0, 0, 0>> \o DylinkA,
                    <<0, 97, 115>> }

InputFiles == {HEADER \o b : b \in Bodies} \cup BadHeaderFiles

\* extra_dynlibs: [], ['b'], ['a', U+00E9], and a lone surrogate that does not encode
ExtraLists == { <<>>, << <<98>> >>, << <<97>>, <<233>> >>, << <<55296>> >> }

\* (INITIAL_MEMORY, GLOBAL_BASE, STANDALONE_WASM)
Settings == { <<16777216, 1024, 0>>, <<200000, 8, 1>> }

NoArg == [extra_dynlibs |-> <<>>, settings |-> <<0, 0, 0>>]

(***************************************************************************)
(* The state machine: one action per exposed operation.  pre is the file   *)
(* before the last call; start is the input file; mdBase/mdCount and       *)
(* upBase/upExtras/upCount record the current run of metadata insertions   *)
(* and of successful dylink updates.                                       *)
(***************************************************************************)
Init ==
  /\ file \in InputFiles
  /\ pre = file
  /\ start = file
  /\ op = "init"
  /\ arg = NoArg
  /\ ret = [ok |-> TRUE]
  /\ mdBase = file
  /\ mdCount = 0
  /\ upBase = file
  /\ upExtras = <<>>
  /\ upCount = 0
  /\ writes = 0

OpenModule ==
  /\ op' = "open"
  /\ arg' = NoArg
  /\ ret' = Module(file)
  /\ pre' = file
  /\ UNCHANGED <<file, start, mdBase, mdCount, upBase, upExtras, upCount, writes>>

ParseDylink ==
  /\ op' = "parse"
  /\ arg' = NoArg
  /\ ret' = parse_dylink_section(file)
  /\ pre' = file
  /\ UNCHANGED <<file, start, mdBase, mdCount, upBase, upExtras, upCount, writes>>

GetImports ==
  /\ op' = "imports"
  /\ arg' = NoArg
  /\ ret' = get_imports(file)
  /\ pre' = file
  /\ UNCHANGED <<file, start, mdBase, mdCount, upBase, upExtras, upCount, writes>>

UpdateDylink ==
  /\ writes < MaxRewrites
  /\ \E extra_dynlibs \in ExtraLists :
       \E r \in {update_dylink_section(file, extra_dynlibs)} :
          /\ op' = "update"
          /\ arg' = [NoArg EXCEPT !.extra_dynlibs = extra_dynlibs]
          /\ ret' = [ok |-> r.ok]
          /\ pre' = file
          /\ file' = r.file
          /\ writes' = writes + 1
          /\ IF r.ok
             THEN /\ upExtras' = upExtras \o extra_dynlibs
                  /\ upCount' = upCount + 1
                  /\ mdBase' = r.file
                  /\ mdCount' = 0
                  /\ UNCHANGED upBase
             ELSE UNCHANGED <<upBase, upExtras, upCount, mdBase, mdCount>>
          /\ UNCHANGED start

AddMetadata ==
  /\ writes < MaxRewrites
  /\ \E s \in Settings :
       /\ op' = "metadata"
       /\ arg' = [NoArg EXCEPT !.settings = s]
       /\ ret' = [ok |-> TRUE]
       /\ pre' = file
       /\ file' = add_emscripten_metadata(file, s[1], s[2], s[3])
       /\ writes' = writes + 1
       /\ mdCount' = mdCount + 1
       /\ upBase' = file'
       /\ upExtras' = <<>>
       /\ upCount' = 0
       /\ UNCHANGED <<start, mdBase>>

Next == OpenModule \/ ParseDylink \/ GetImports \/ UpdateDylink \/ AddMetadata

Spec == Init /\ [][Next]_vars

(***************************************************************************)
(* Helpers of the properties: an independent walk over the section         *)
(* headers of a file, and decoding of a run of unsigned varints.           *)
(***************************************************************************)
GoodHeader(buf) == Len(buf) >= 8 /\ SubSeq(buf, 1, 8) = HEADER

\* the headers met from position pos on: <<header start, type, size, payload offset>>,
\* up to end of file, an unreadable header, or a position past end of file
RECURSIVE Walk(_, _, _)
Walk(buf, pos, acc) ==
  IF pos >= Len(buf) THEN [end |-> pos, complete |-> TRUE, heads |-> acc]
  ELSE LET sz == readULEB(buf, pos + 1)
       IN IF ~sz.ok THEN [end |-> pos, complete |-> FALSE, heads |-> acc]
          ELSE Walk(buf, sz.pos + sz.val,
                    Append(acc, [at |-> pos, type |-> buf[pos + 1], size |-> sz.val,
                                 offset |-> sz.pos]))

\* some section's declared size carries the position past end of file
Overshoots(buf) ==
  LET w == Walk(buf, 8, <<>>)
  IN \E i \in 1..Len(w.heads) : w.heads[i].offset + w.heads[i].size > Len(buf)

\* two section headers carry the same non-custom type
HasDuplicateType(buf) ==
  LET w == Walk(buf, 8, <<>>)
  IN \E i, j \in 1..Len(w.heads) :
       i < j /\ w.heads[i].type = w.heads[j].type /\ w.heads[i].type # 0

\* the section headers end exactly at end of file
WalkEndsAtEOF(buf) ==
  LET w == Walk(buf, 8, <<>>) IN w.complete /\ w.end = Len(buf)

\* the sections tile buf from byte 8 to its end, each header where the previous
\* section ends
Tiles(buf, sections) ==
  /\ \A i \in 1..Len(sections) :
       LET at == IF i = 1 THEN 8 ELSE sections[i - 1].offset + sections[i - 1].size
           sz == readULEB(buf, at + 1)
       IN /\ at < Len(buf)
          /\ buf[at + 1] = sections[i].type
          /\ sz.ok /\ sz.val = sections[i].size /\ sz.pos = sections[i].offset
  /\ IF sections = <<>> THEN Len(buf) = 8
     ELSE sections[Len(sections)].offset + sections[Len(sections)].size = Len(buf)

RECURSIVE ReadULEBs(_, _, _, _)
ReadULEBs(buf, pos, n, acc) ==
  IF n = 0 THEN [ok |-> TRUE, vals |-> acc, pos |-> pos]
  ELSE LET v == readULEB(buf, pos)
       IN IF ~v.ok THEN [ok |-> FALSE, vals |-> acc, pos |-> v.pos]
          ELSE ReadULEBs(buf, v.pos, n - 1, Append(acc, v.val))

\* the bytes buf[a:b]
Slice(buf, a, b) == SubSeq(buf, a + 1, Min(b, Len(buf)))

(***************************************************************************)
(* Properties.                                                             *)
(***************************************************************************)
StartsWith(buf, prefix) ==
  Len(buf) >= Len(prefix) /\ SubSeq(buf, 1, Len(prefix)) = prefix

\* the dylink pieces and the fields they were written from
KnownDylinks ==
  { [bytes |-> DylinkA, mem_size |-> 16, mem_align |-> 4, table_size |-> 8,
     table_align |-> 4, needed |-> << <<97>> >>],
    [bytes |-> DylinkB, mem_size |-> 300, mem_align |-> 0, table_size |-> 8,
     table_align |-> 3, needed |-> << <<97>>, <<233>>, <<97>> >>] }

\* C1: after update_dylink_section(path, extra) has returned, parse_dylink_section
\* returns the mem_size, mem_align and table_size it returned before the update,
\* table_align = 0, and the former needed list followed by extra; on a module that
\* starts with a well-formed dylink section the update returns for every list
\* of names that encode as UTF-8, and the fields are the ones the section was
\* written from.
C1_DylinkRoundTrip ==
  op = "update" =>
    LET before == parse_dylink_section(pre)
        after == parse_dylink_section(file)
    IN /\ ret.ok =>
            /\ before.ok /\ after.ok
            /\ after.mem_size = before.mem_size
            /\ after.mem_align = before.mem_align
            /\ after.table_size = before.table_size
            /\ after.table_align = 0
            /\ after.needed = before.needed \o arg.extra_dynlibs
       /\ \A d \in KnownDylinks :
            (/\ StartsWith(pre, HEADER \o d.bytes)
             /\ Module(pre).ok
             /\ encodeNeeded(arg.extra_dynlibs).ok)
            => /\ ret.ok
               /\ after.mem_size = d.mem_size
               /\ after.mem_align = d.mem_align
               /\ after.table_size = d.table_size
               /\ after.table_align = 0
               /\ after.needed = d.needed \o arg.extra_dynlibs

\* C1 witness: a section with table_align 4 and needed ['a'] was extended by
\* ['a', U+00E9], so that 'a' is needed twice
C1_Witness ==
  /\ op = "update" /\ ret.ok
  /\ pre = HEADER \o DylinkA \o TypeSec
  /\ arg.extra_dynlibs = << <<97>>, <<233>> >>
  /\ parse_dylink_section(pre).table_align = 4
  /\ parse_dylink_section(file).needed = << <<97>>, <<97>>, <<233>> >>

\* the position after the four sizes, the count and the needed names that start
\* at pos
DylinkPayloadEnd(buf, pos) ==
  LET nums == ReadULEBs(buf, pos, 5, <<>>)
  IN IF ~nums.ok THEN -1
     ELSE LET names == readNeeded(buf, nums.pos, nums.vals[5], <<>>)
          IN IF names.ok THEN names.pos ELSE -1

\* C2: a successful update_dylink_section leaves the original 8-byte header, one
\* custom section (type byte 0, size varint = length of the prefixed name
\* "dylink" plus the new payload, the name, the payload) and then the original
\* bytes from the end of the original dylink section to end of file.
C2_BytePreservation ==
  (op = "update" /\ ret.ok) =>
    LET old == Module(pre).sections[1]
        section_end == old.offset + old.size
        sz == readULEB(file, 9)
    IN /\ Slice(file, 0, 8) = Slice(pre, 0, 8)
       /\ file[9] = 0
       /\ sz.ok
       /\ Slice(file, sz.pos, sz.pos + 7) = DYLINK_NAME
       /\ DylinkPayloadEnd(file, sz.pos + 7) = sz.pos + sz.val
       /\ SliceFrom(file, sz.pos + sz.val) = SliceFrom(pre, section_end)
       /\ Len(file) = sz.pos + sz.val + (Len(pre) - section_end)

\* C2 witness: the dylink section was followed by an import section
C2_Witness ==
  /\ op = "update" /\ ret.ok
  /\ pre = HEADER \o DylinkB \o ImportSec(ImportsAllEntries)
  /\ arg.extra_dynlibs = << <<98>> >>
  /\ SliceFrom(file, Len(file) - Len(ImportSec(ImportsAllEntries)))
       = ImportSec(ImportsAllEntries)

\* the position after k custom sections named "emscripten_metadata" that start
\* at pos, or -1 if the bytes at pos are not k such sections
RECURSIVE SkipMetadataSections(_, _, _)
SkipMetadataSections(buf, pos, k) ==
  IF k = 0 THEN pos
  ELSE IF pos >= Len(buf) \/ buf[pos + 1] # 0 THEN -1
  ELSE LET sz == readULEB(buf, pos + 1)
       IN IF ~sz.ok THEN -1
          ELSE IF Slice(buf, sz.pos, sz.pos + Len(METADATA_NAME)) # METADATA_NAME THEN -1
          ELSE IF sz.pos + sz.val > Len(buf) THEN -1
          ELSE SkipMetadataSections(buf, sz.pos + sz.val, k - 1)

\* C3: after k >= 1 successive calls of add_emscripten_metadata on a file orig
\* that has its 8 header bytes, the file is orig[0:8], then exactly k custom
\* sections named "emscripten_metadata", then orig[8:]; each call puts its
\* section right after the header and keeps every byte that followed the header.
C3_MetadataPlacement ==
  /\ (mdCount >= 1 /\ Len(mdBase) >= 8) =>
       LET end == SkipMetadataSections(file, 8, mdCount)
       IN /\ Slice(file, 0, 8) = Slice(mdBase, 0, 8)
          /\ end # -1
          /\ SliceFrom(file, end) = SliceFrom(mdBase, 8)
          /\ Len(file) = end + (Len(mdBase) - 8)
  /\ (op = "metadata" /\ Len(pre) >= 8) =>
       LET end == SkipMetadataSections(file, 8, 1)
       IN /\ Slice(file, 0, 8) = Slice(pre, 0, 8)
          /\ end # -1
          /\ SliceFrom(file, end) = SliceFrom(pre, 8)
          /\ Len(file) = end + (Len(pre) - 8)

\* C3 witness: two calls with different settings on a file with two sections
C3_Witness ==
  /\ op = "metadata" /\ mdCount = 2
  /\ mdBase = HEADER \o TypeSec \o CustomOther
  /\ file # add_emscripten_metadata(pre, 16777216, 1024, 0)
  /\ Module(file).ok /\ Len(Module(file).sections) = 4

\* C4: the section written by add_emscripten_metadata declares the size of the
\* prefixed name plus the payload, and the payload is exactly twelve unsigned
\* varints: metadata major, metadata minor, ABI major, ABI minor, 1,
\* INITIAL_MEMORY div 65536, 0, GLOBAL_BASE, 0, 0, 0, STANDALONE_WASM.
C4_MetadataSchema ==
  op = "metadata" =>
    LET at == Len(SliceTo(pre, 8))
        sz == readULEB(file, at + 1)
        body == sz.pos + Len(METADATA_NAME)
        fields == ReadULEBs(file, body, 12, <<>>)
    IN /\ file[at + 1] = 0
       /\ sz.ok
       /\ Slice(file, sz.pos, body) = METADATA_NAME
       /\ fields.ok
       /\ fields.vals = << EMSCRIPTEN_METADATA_MAJOR, EMSCRIPTEN_METADATA_MINOR,
                           EMSCRIPTEN_ABI_MAJOR, EMSCRIPTEN_ABI_MINOR, 1,
                           arg.settings[1] \div 65536, 0, arg.settings[2], 0, 0, 0,
                           arg.settings[3] >>
       /\ fields.pos = sz.pos + sz.val
       /\ sz.val = Len(METADATA_NAME) + (fields.pos - body)

\* C4 witness: INITIAL_MEMORY is not a multiple of the page size, and the flag is set
C4_Witness ==
  /\ op = "metadata"
  /\ arg.settings = <<200000, 8, 1>>
  /\ Slice(file, 8, 10) = <<0, 32>>
  /\ SliceFrom(pre, 8) # <<>>

\* C5: when Module opens a file, its sections are in file order, the first
\* header is at byte 8, each header starts where the previous section ends, and
\* the last section ends at the end of the file; a file in which a declared size
\* carries the position past the end of the file does not open.
C5_SectionTiling ==
  op = "open" =>
    /\ ret.ok => (GoodHeader(file) /\ Tiles(file, ret.sections))
    /\ Overshoots(file) => ~ret.ok

\* C5 witness: a module of two sections, the first with padded varints, was opened
C5_Witness ==
  /\ op = "open" /\ ret.ok
  /\ file = HEADER \o DylinkB \o ImportSec(ImportsAllEntries)
  /\ Len(ret.sections) = 2
  /\ ret.sections[1].offset = 11
  /\ ret.sections[2].offset + ret.sections[2].size = Len(file)

\* C6: Module does not open a file in which two sections carry the same
\* non-custom type; when it opens a file, the map has exactly one entry per
\* non-custom type present, equal to the only section of that type, and no entry
\* for type 0; custom sections may repeat without failure.
C6_UniqueSections ==
  op = "open" =>
    /\ HasDuplicateType(file) => ~ret.ok
    /\ ret.ok =>
         /\ DOMAIN ret.section_map
              = {ret.sections[i].type : i \in 1..Len(ret.sections)} \ {0}
         /\ \A t \in DOMAIN ret.section_map :
              /\ Cardinality({i \in 1..Len(ret.sections) : ret.sections[i].type = t}) = 1
              /\ \E i \in 1..Len(ret.sections) : ret.sections[i] = ret.section_map[t]
              /\ ret.section_map[t].type = t
    /\ (GoodHeader(file) /\ WalkEndsAtEOF(file) /\ ~HasDuplicateType(file)) => ret.ok

\* C6 witness: the only defect of the file is a second import section
C6_Witness ==
  /\ op = "open" /\ ~ret.ok
  /\ GoodHeader(file) /\ WalkEndsAtEOF(file)
  /\ HasDuplicateType(file)
  /\ Walk(file, 8, <<>>).heads[1].type = 0

\* the import section of buf holds exactly the entries of the list
HasImports(buf, entries) ==
  LET m == Module(buf)
  IN /\ m.ok
     /\ SecType_IMPORT \in DOMAIN m.section_map
     /\ Slice(buf, m.section_map[SecType_IMPORT].offset,
              m.section_map[SecType_IMPORT].offset + m.section_map[SecType_IMPORT].size)
          = ImportPayload(entries)

Records(entries) ==
  [i \in 1..Len(entries) |-> Import(entries[i].kind, entries[i].mod, entries[i].field)]

\* C7: for a module whose import section holds entries of kinds Function, Table,
\* Memory, Global or Event, get_imports returns one record per entry, in file
\* order, with the entry's kind and names; for a module without an import
\* section it returns the empty sequence.
C7_ImportEnumeration ==
  op = "imports" =>
    /\ (Module(file).ok /\ SecType_IMPORT \notin DOMAIN Module(file).section_map)
         => (ret.ok /\ ret.imports = <<>>)
    /\ \A l \in ImportLists :
         (HasImports(file, l) /\ \A i \in 1..Len(l) : l[i].kind \in ExternType)
           => (ret.ok /\ ret.imports = Records(l))

\* the same statement for the kinds get_imports has a branch for
ImportEnumerationWithoutEvent ==
  op = "imports" =>
    /\ (Module(file).ok /\ SecType_IMPORT \notin DOMAIN Module(file).section_map)
         => (ret.ok /\ ret.imports = <<>>)
    /\ \A l \in ImportLists :
         (HasImports(file, l)
            /\ \A i \in 1..Len(l) : l[i].kind \in ExternType \ {ExternType_EVENT})
           => (ret.ok /\ ret.imports = Records(l))
    /\ \A l \in ImportLists :
         (HasImports(file, l) /\ \E i \in 1..Len(l) : l[i].kind \notin ExternType)
           => ~ret.ok

\* the first section of buf is not a custom section named "dylink"
FirstIsNotDylink(buf) ==
  \/ Len(buf) <= 8
  \/ buf[9] # 0
  \/ LET sz == readULEB(buf, 9)
     IN \/ ~sz.ok
        \/ LET name == readString(buf, sz.pos)
           IN ~name.ok \/ name.val # DYLINK_STR

\* C8: when update_dylink_section fails, the file holds the bytes it held before
\* the call; it fails on a bad magic or version, a repeated non-custom section, a
\* section scan that runs past the end of the file, a file without sections, and
\* a first section that is not a custom section named "dylink", whatever the
\* later sections are.
C8_NoPartialWrite ==
  op = "update" =>
    /\ ~ret.ok => file = pre
    /\ (\/ ~GoodHeader(pre)
        \/ HasDuplicateType(pre)
        \/ Overshoots(pre)
        \/ FirstIsNotDylink(pre)) => ~ret.ok

\* C8 witness: the update failed on a module whose second section is a dylink section
C8_Witness ==
  /\ op = "update" /\ ~ret.ok
  /\ pre = HEADER \o CustomOther \o DylinkA
  /\ file = pre
  /\ Module(pre).ok

\* the non-custom sections of buf, in order: type, declared size, payload bytes
RECURSIVE NonCustom(_, _)
NonCustom(buf, sections) ==
  IF sections = <<>> THEN <<>>
  ELSE LET sec == Head(sections)
           rest == NonCustom(buf, Tail(sections))
       IN IF sec.type = 0 THEN rest
          ELSE << [type |-> sec.type, size |-> sec.size,
                   payload |-> Slice(buf, sec.offset, sec.offset + sec.size)] >> \o rest

\* C9: if Module opens the input file, then after any sequence of
\* add_emscripten_metadata and update_dylink_section calls Module opens the file,
\* its sections tile the file, and its non-custom sections (type, declared size,
\* payload) are those of the input file, in the same order.
C9_RewritesPreserveModule ==
  (op = "open" /\ Module(start).ok) =>
    /\ ret.ok
    /\ Tiles(file, ret.sections)
    /\ NonCustom(file, ret.sections) = NonCustom(start, Module(start).sections)

\* C9 witness: a module with an import section, opened after a successful update
\* and a metadata insertion
C9_Witness ==
  /\ op = "open" /\ ret.ok
  /\ start = HEADER \o DylinkB \o ImportSec(ImportsAllEntries)
  /\ upBase = file /\ mdCount = 1 /\ writes = 2
  /\ file # add_emscripten_metadata(start, 16777216, 1024, 0)
  /\ file # add_emscripten_metadata(start, 200000, 8, 1)
  /\ Len(NonCustom(file, ret.sections)) = 1

\* C10: after two or more successful updates in a row, with lists A, B, ..., the
\* file is the one a single update of the first file with A followed by B ...
\* produces.
C10_UpdatesCompose ==
  upCount >= 2 =>
    LET once == update_dylink_section(upBase, upExtras)
    IN once.ok /\ file = once.file

\* C10 witness: ['b'] and then ['a', U+00E9] were added by two updates
C10_Witness ==
  /\ upCount = 2
  /\ upExtras = << <<98>>, <<97>>, <<233>> >>
  /\ upBase = HEADER \o DylinkA \o TypeSec
  /\ op = "update" /\ ret.ok /\ arg.extra_dynlibs = << <<97>>, <<233>> >>

====
